---- MODULE Spec2Model ----
(***************************************************************************)
(* A model of getcomics.info's Query class (src/query.py) and of the way   *)
(* main() (src/main.py) drives it: page discovery (find_pages), link       *)
(* resolution (get_download_links), the download loop (download_comics,    *)
(* download_file) and the file namer (create_file_name).                   *)
(*                                                                         *)
(* Strings the code takes apart (link URLs, file names, paths) are         *)
(* sequences of tokens: a token is one character ("/", ".", a backslash,   *)
(* a blank, a digit ...) or an opaque run of characters holding none of    *)
(* the characters the code looks for ("http", "_MEDIAFIRE_", "%2F", a      *)
(* host or file stem such as "a").                                         *)
(***************************************************************************)
EXTENDS Integers, Sequences, FiniteSets, TLC

\* ------------------------------------------------------------------ bounds
MaxPages == 2      \* search pages the site holds before its first empty page
MaxErrors == 2     \* failed requests.get calls in one run
MaxChunks == 2     \* chunks in the body of one download
MaxCalls == 2      \* create_file_name calls in one run of the namer
MaxLinks == 2      \* entries of comic_links when download_comics starts
MaxQueries == 4    \* queries main()'s loop constructs in one run

\* ----------------------------------------------------------------- strings
SLASH == "/"
BSLASH == "\\"
DOT == "."
MARKER == "_MEDIAFIRE_"
HTTP == "http"

\* s.replace(a, b) for single tokens a, b
StrReplace(s, a, b) == [i \in 1..Len(s) |-> IF s[i] = a THEN b ELSE s[i]]

\* c in s
StrContains(s, c) == \E i \in 1..Len(s) : s[i] = c

\* the index of the last c of s, 0 when there is none
LastIndex(s, c) ==
  IF StrContains(s, c) THEN CHOOSE i \in 1..Len(s) : s[i] = c /\ \A j \in (i+1)..Len(s) : s[j] # c
  ELSE 0

\* s.rpartition(c): <<head, sep, tail>>, and <<"", "", s>> when c is not in s
RPartition(s, c) ==
  LET i == LastIndex(s, c) IN
  IF i = 0 THEN << <<>>, <<>>, s >>
  ELSE << SubSeq(s, 1, i - 1), <<c>>, SubSeq(s, i + 1, Len(s)) >>

\* str(n) for n >= 0
RECURSIVE IntStr(_)
IntStr(n) ==
  LET d == <<"0", "1", "2", "3", "4", "5", "6", "7", "8", "9">> IN
  IF n < 10 THEN << d[n + 1] >> ELSE IntStr(n \div 10) \o << d[(n % 10) + 1] >>

\* urllib.parse.unquote, on the escapes the inputs hold
Unquote(s) ==
  [i \in 1..Len(s) |->
     CASE s[i] = "%2F" -> SLASH
       [] s[i] = "%5C" -> BSLASH
       [] s[i] = "%20" -> " "
       [] s[i] = "%3A" -> ":"
       [] OTHER -> s[i]]

\* ------------------------------------------------------------------- paths
\* the components of s between its "/"s (empty ones included)
RECURSIVE SplitSlash(_)
SplitSlash(s) ==
  IF ~StrContains(s, SLASH) THEN << s >>
  ELSE LET p == RPartition(s, SLASH) IN Append(SplitSlash(p[1]), p[3])

RECURSIVE JoinSlash(_)
JoinSlash(cs) ==
  IF Len(cs) = 0 THEN <<>>
  ELSE IF Len(cs) = 1 THEN cs[1]
  ELSE cs[1] \o <<SLASH>> \o JoinSlash(Tail(cs))

IsAbsolute(s) == Len(s) > 0 /\ s[1] = SLASH

\* str(Path(s)) on POSIX: empty and "." components dropped, a trailing "/"
\* dropped, "." for the empty path; ".." is kept as written. (pathlib keeps
\* a leading "//" as it is; no path of the model starts with one.)
PathStr(s) ==
  LET cs == SelectSeq(SplitSlash(s), LAMBDA c : c # <<>> /\ c # <<DOT>>)
      body == JoinSlash(cs)
  IN IF IsAbsolute(s) THEN <<SLASH>> \o body
     ELSE IF body = <<>> THEN <<DOT>> ELSE body

\* str(Path(a) / b): an absolute b replaces a
PathJoin(a, b) == IF IsAbsolute(b) THEN PathStr(b) ELSE PathStr(a \o <<SLASH>> \o b)

VARIABLES
  pc,          \* the statement the run stands at
  exc,         \* the exception that ended the run ("none" while it runs)
  \* ---- the query (Query.__init__, lines 16-22) and the site it searches
  num_results_desired,  \* self.num_results_desired (0: no limit)
  date,        \* args.date, the cutoff main() holds (0: none given)
  site,        \* the site's search pages 1..Len(site); later pages hold no post
  page_links,  \* self.page_links, an insertion-ordered dict: <<[key, val], ...>>
  comic_links, \* self.comic_links, an insertion-ordered dict
  \* ---- find_pages
  page,        \* its local `page`
  response,    \* its local `response`: the page number it holds, 0 while unbound
  fetched,     \* history: one [page, ok, had] per requests.get of find_pages
  errors,      \* failed requests.get calls so far
  \* ---- get_download_links
  docs,        \* the site's result pages: page URL |-> the <a> tags it holds
  gl_i,        \* the position in page_links.items() of the for loop
  gl_response, \* its local `response`: the page it holds, "unbound" at first
  gl_log,      \* history: one [url, ok, before, after] per page visited
  \* ---- download_comics and download_file
  download_path, \* self.download_path
  dc_i,        \* the position in comic_links.items() of the for loop
  destination, \* download_file's `destination`
  temp_file,   \* download_file's `temp_file`
  df_left,     \* chunks of the response body still to come
  df_stage,    \* how far the latest download_file got
  reported,    \* history: the Mediafire lines printed, [i, text]
  gets,        \* history: the URLs download_file requested
  \* ---- the disk and the namer
  fs,          \* the files on disk: path |-> contents
  dirs,        \* the directories on disk
  fn_arg,      \* create_file_name: the argument of the latest call
  fn_result,   \* create_file_name: what the latest call returned
  fn_calls,    \* create_file_name: calls made so far
  \* ---- main.py: the command line and main()'s loop
  argv_date,   \* the string given with -date (<<>>: none given)
  date_res,    \* what is_date made of it
  verbose,     \* args.verbose
  prompt,      \* args.prompt
  declined,    \* the entries of comic_links the user would decline if asked
  newer,       \* args.newer (0: not given)
  test,        \* args.test
  loop_i,      \* main()'s `i`
  failed_to_find_comics,  \* main()'s counter of queries without a link
  queries      \* history: one [n, links] per query main() finished

queryVars == <<num_results_desired, date, site, page_links, comic_links>>
findVars == <<page, response, fetched, errors>>
linkVars == <<docs, gl_i, gl_response, gl_log>>
dlVars == <<download_path, dc_i, destination, temp_file, df_left, df_stage, reported, gets>>
diskVars == <<fs, dirs>>
nameVars == <<fn_arg, fn_result, fn_calls>>
mainVars == <<argv_date, date_res, verbose, prompt, declined, newer, test, loop_i,
              failed_to_find_comics, queries>>
vars == <<pc, exc, queryVars, findVars, linkVars, dlVars, diskVars, nameVars, mainVars>>

\* Path(s).exists()
Exists(s) == PathStr(s) \in DOMAIN fs \/ PathStr(s) \in dirs

\* ------------------------------------------------------ create_file_name
\* f"{directories}{stem} ({num}){suffix}"
Numbered(directories, stem, suffix, num) ==
  directories \o stem \o <<" ", "(">> \o IntStr(num) \o <<")">> \o suffix

\* the while loop of lines 165-167: the first num from n on whose name is free
RECURSIVE FirstFree(_, _, _, _)
FirstFree(directories, stem, suffix, n) ==
  IF Exists(Numbered(directories, stem, suffix, n))
  THEN FirstFree(directories, stem, suffix, n + 1)
  ELSE n

\* create_file_name with its counter started at 1 instead of 0 (line 165)
create_file_name_from1(filename) ==
  LET f == StrReplace(filename, BSLASH, SLASH) IN
  IF ~Exists(f) THEN f
  ELSE
    LET hasDir == StrContains(f, SLASH)
        directories == IF hasDir THEN RPartition(f, SLASH)[1] \o <<SLASH>> ELSE <<>>
        name == IF hasDir THEN RPartition(f, SLASH)[3] ELSE f
        hasDot == StrContains(name, DOT)
        stem == IF hasDot THEN RPartition(name, DOT)[1] ELSE name
        suffix == IF hasDot THEN <<DOT>> \o RPartition(name, DOT)[3] ELSE <<>>
    IN Numbered(directories, stem, suffix, FirstFree(directories, stem, suffix, 1))

create_file_name(filename) ==
  LET f == StrReplace(filename, BSLASH, SLASH) IN
  IF ~Exists(f) THEN f
  ELSE
    LET hasDir == StrContains(f, SLASH)
        directories == IF hasDir THEN RPartition(f, SLASH)[1] \o <<SLASH>> ELSE <<>>
        name == IF hasDir THEN RPartition(f, SLASH)[3] ELSE f
        hasDot == StrContains(name, DOT)
        stem == IF hasDot THEN RPartition(name, DOT)[1] ELSE name
        suffix == IF hasDot THEN <<DOT>> \o RPartition(name, DOT)[3] ELSE <<>>
    IN Numbered(directories, stem, suffix, FirstFree(directories, stem, suffix, 0))

\* --------------------------------------------------- the namer on its own
\* A file that was on disk before the run.
OldFile == [by |-> 0, bytes |-> 1, whole |-> TRUE]

\* The directory a path lies in, as the OS resolves it.
ParentDir(s) ==
  LET p == PathStr(s) IN
  IF ~StrContains(p, SLASH) THEN <<DOT>>
  ELSE IF LastIndex(p, SLASH) = 1 THEN <<SLASH>>
  ELSE RPartition(p, SLASH)[1]

NameDirs == { <<DOT>>, <<"d">>, <<"d", DOT, "x">>, <<SLASH, "h">> }

\* Paths create_file_name is called with.
NameInputs ==
  { <<"a", DOT, "c">>,
    <<"a">>,
    <<DOT, "c">>,
    <<"d", SLASH, "a", DOT, "c">>,
    <<"d", BSLASH, "a", DOT, "c">>,
    <<"d", DOT, "x", SLASH, "a">>,
    <<SLASH, "h", SLASH, "a", DOT, "b", DOT, "c">>,
    <<"a", BSLASH, "b", DOT, "c">> }

\* Files that may be on disk when the namer runs.
NameFiles ==
  { <<"a", DOT, "c">>,
    <<"a", " ", "(", "0", ")", DOT, "c">>,
    <<"d", SLASH, "a", DOT, "c">>,
    <<"d", SLASH, "a", " ", "(", "0", ")", DOT, "c">>,
    <<"d", DOT, "x", SLASH, "a">>,
    <<SLASH, "h", SLASH, "a", DOT, "b", DOT, "c">> }

\* A query that is not run, and the locals of a find_pages that is not called.
IdleQuery ==
  /\ num_results_desired = 0
  /\ date = 0
  /\ site = <<>>
  /\ page_links = <<>>
  /\ comic_links = <<>>

IdleFind ==
  /\ page = 0
  /\ response = 0
  /\ fetched = <<>>
  /\ errors = 0

IdleLinks ==
  /\ docs = <<>>
  /\ gl_i = 0
  /\ gl_response = "unbound"
  /\ gl_log = <<>>

IdleDownload ==
  /\ download_path = <<DOT>>
  /\ dc_i = 0
  /\ destination = <<>>
  /\ temp_file = <<>>
  /\ df_left = 0
  /\ df_stage = "none"
  /\ reported = <<>>
  /\ gets = <<>>

IdleNames ==
  /\ fn_arg = <<>>
  /\ fn_result = <<>>
  /\ fn_calls = 0

\* What is_date(date, return_datetime=True) comes to: a datetime, False, or
\* an exception raised out of it.
DateOut(out, e, y, m, d) == [out |-> out, exc |-> e, year |-> y, month |-> m, day |-> d]
NoDate == DateOut("none", "none", 0, 0, 0)
InvalidDate == DateOut("False", "none", 0, 0, 0)

\* A command line that gives the query alone, before main()'s loop begins.
IdleMain ==
  /\ argv_date = <<>>
  /\ date_res = NoDate
  /\ verbose = FALSE
  /\ prompt = FALSE
  /\ declined = {}
  /\ newer = 0
  /\ test = FALSE
  /\ loop_i = -1
  /\ failed_to_find_comics = 0
  /\ queries = <<>>

InitNames ==
  /\ pc = "cfn_call"
  /\ exc = "none"
  /\ dirs = NameDirs
  /\ \E S \in SUBSET NameFiles : fs = [f \in S |-> OldFile]
  /\ fn_arg \in NameInputs
  /\ fn_result = <<>>
  /\ fn_calls = 0
  /\ IdleQuery
  /\ IdleFind
  /\ IdleLinks
  /\ IdleDownload
  /\ IdleMain

\* filename = self.create_file_name(path)
CFN_Call ==
  /\ pc = "cfn_call"
  /\ fn_calls < MaxCalls
  /\ fn_result' = create_file_name(fn_arg)
  /\ fn_calls' = fn_calls + 1
  /\ pc' = "cfn_ret"
  /\ UNCHANGED <<exc, fs, dirs, fn_arg, queryVars, findVars, linkVars, dlVars, mainVars>>

\* The caller creates the file it asked a name for, and asks for the next.
CFN_Create ==
  /\ pc = "cfn_ret"
  /\ ParentDir(fn_result) \in dirs
  /\ fs' = [f \in DOMAIN fs \cup {PathStr(fn_result)} |->
              IF f = PathStr(fn_result) THEN [by |-> fn_calls, bytes |-> 1, whole |-> TRUE]
              ELSE fs[f]]
  /\ \E a \in NameInputs : fn_arg' = a
  /\ pc' = "cfn_call"
  /\ UNCHANGED <<exc, dirs, fn_result, fn_calls, queryVars, findVars, linkVars, dlVars, mainVars>>

NextNames == CFN_Call \/ CFN_Create

SpecNames == InitNames /\ [][NextNames]_vars

\* 'stem (k)suffix' in the directory of path n: " (k)" set before the last
\* "." of n's last component, or at its end when that component has none.
Slot(n, k) ==
  LET s == LastIndex(n, SLASH)
      d == LastIndex(n, DOT)
      mark == <<" ", "(">> \o IntStr(k) \o <<")">>
  IN IF d > s THEN SubSeq(n, 1, d - 1) \o mark \o SubSeq(n, d, Len(n))
     ELSE n \o mark

\* C10 (as amended): create_file_name returns its argument with every
\* backslash written as "/" when that path does not exist; otherwise it
\* returns 'stem (n)suffix' in the same directory for the smallest n >= 0
\* whose path does not exist; either way the returned path does not exist
\* at call time.
C10_Uniquify ==
  pc = "cfn_ret" =>
    LET n == StrReplace(fn_arg, BSLASH, SLASH) IN
    /\ ~Exists(fn_result)
    /\ ~Exists(n) => fn_result = n
    /\ Exists(n) =>
         \E k \in 0..Cardinality(DOMAIN fs) :
           /\ fn_result = Slot(n, k)
           /\ \A j \in 0..(k - 1) : Exists(Slot(n, j))

\* A call whose path and whose slot (0) were both taken: slot (1) comes back.
C10_Witness ==
  /\ pc = "cfn_ret"
  /\ Exists(fn_arg)
  /\ fn_result = Slot(fn_arg, 1)

\* C10 as the claim words it: the argument itself comes back, unchanged,
\* when it does not exist.
C10_Original ==
  pc = "cfn_ret" =>
    /\ ~Exists(fn_result)
    /\ ~Exists(fn_arg) => fn_result = fn_arg
    /\ Exists(fn_arg) =>
         \E k \in 0..Cardinality(DOMAIN fs) :
           /\ fn_result = Slot(fn_arg, k)
           /\ \A j \in 0..(k - 1) : Exists(Slot(fn_arg, j))

\* ------------------------------------------------------- ordered dicts
Keys(d) == [i \in 1..Len(d) |-> d[i].key]
KeySet(d) == {d[i].key : i \in 1..Len(d)}
HasKey(d, k) == \E i \in 1..Len(d) : d[i].key = k
Value(d, k) == d[CHOOSE i \in 1..Len(d) : d[i].key = k].val

\* d[k] = v: a new key goes to the end, a known key keeps its place
\* d[k] = v that adds an entry whether or not the key is there
DictSet_append(d, k, v) == Append(d, [key |-> k, val |-> v])

\* d[k] = v: a key that is there keeps its place
DictSet(d, k, v) ==
  IF HasKey(d, k)
  THEN [i \in 1..Len(d) |-> IF d[i].key = k THEN [key |-> k, val |-> v] ELSE d[i]]
  ELSE Append(d, [key |-> k, val |-> v])

\* -------------------------------------------------------------- the site
Hrefs == {"p1", "p2", "p3"}
TitleOf == [h \in Hrefs |-> CASE h = "p1" -> "t1" [] h = "p2" -> "t2" [] OTHER -> "t3"]

\* The day each result page was published, and the cutoff a user may give.
DateOf == [h \in Hrefs |-> CASE h = "p1" -> 3 [] h = "p2" -> 1 [] OTHER -> 2]
Cutoffs == {0, 2}

\* One <h1 class="post-title"><a href=...>title</a></h1> of a search page.
Posts == {[href |-> h, title |-> TitleOf[h]] : h \in Hrefs}

\* A search page that holds posts: one or two of them.
SearchPages == {<<a>> : a \in Posts} \cup {<<a, b>> : a \in Posts, b \in Posts}

RECURSIVE SeqsUpTo(_, _)
SeqsUpTo(S, n) ==
  IF n = 0 THEN {<<>>}
  ELSE LET shorter == SeqsUpTo(S, n - 1) IN
       shorter \cup {Append(q, x) : q \in {r \in shorter : Len(r) = n - 1}, x \in S}

Sites == SeqsUpTo(SearchPages, MaxPages)

\* soup.findAll("h1", {"class": "post-title"}) and their <a> tags, of page n
SitePage(n) == IF n \in 1..Len(site) THEN site[n] ELSE <<>>

\* ------------------------------------------------------------- find_pages
\* line 30: the while condition
FindMore ==
  num_results_desired = 0 \/ Len(page_links) < num_results_desired

\* lines 42-43 left out: no page ends discovery
NoPosts_never(posts) == FALSE

\* lines 42-43: the page that ends discovery
NoPosts(posts) == Len(posts) = 0

\* lines 49-50 left out: a tag is added whatever the dict holds
AddTag_nocap(d, tag) == DictSet(d, tag.href, tag.title)

\* lines 47-51, one tag: skipped when the dict is full
AddTag(d, tag) ==
  IF num_results_desired # 0 /\ Len(d) = num_results_desired THEN d
  ELSE DictSet(d, tag.href, tag.title)

\* lines 45-51: every tag of every post, in page order
RECURSIVE AddPosts(_, _)
AddPosts(d, posts) ==
  IF posts = <<>> THEN d ELSE AddPosts(AddTag(d, Head(posts)), Tail(posts))

InitFind ==
  /\ pc = "main_231"
  /\ exc = "none"
  /\ num_results_desired \in 0..2
  /\ date \in Cutoffs
  /\ site \in Sites
  /\ page_links = <<>>
  /\ comic_links = <<>>
  /\ IdleFind
  /\ IdleLinks
  /\ IdleDownload
  /\ IdleNames
  /\ IdleMain
  /\ fs = <<>>
  /\ dirs = {}

\* main.py line 231, query.find_pages(date=args.date): find_pages (line 24)
\* takes no argument, so the call raises TypeError before its body runs.
Main_find_pages ==
  /\ pc = "main_231"
  /\ pc' = "raised"
  /\ exc' = "TypeError"
  /\ UNCHANGED <<queryVars, findVars, diskVars, nameVars, linkVars, dlVars, mainVars>>

\* query.find_pages(), the call the method accepts: lines 28-29
Call_find_pages ==
  /\ pc = "main_231"
  /\ pc' = "find_pages"
  /\ page' = 0
  /\ response' = 0
  /\ UNCHANGED <<exc, queryVars, fetched, errors, diskVars, nameVars, linkVars, dlVars, mainVars>>

\* One pass of the while loop, lines 30-51. A requests.get that raises is
\* caught and printed (lines 36-38) and the pass goes on to line 40 with
\* `response` as it was: unbound in the first pass (UnboundLocalError), the
\* previous page's response later.
FP_Iter ==
  /\ pc = "find_pages"
  /\ FindMore
  /\ page < MaxPages + MaxErrors + 2
  /\ \E ok \in BOOLEAN :
       /\ ~ok => errors < MaxErrors
       /\ page' = page + 1
       /\ fetched' = Append(fetched, [page |-> page + 1, ok |-> ok, had |-> Len(page_links)])
       /\ errors' = IF ok THEN errors ELSE errors + 1
       /\ IF ~ok /\ response = 0
          THEN /\ pc' = "raised"
               /\ exc' = "UnboundLocalError"
               /\ UNCHANGED <<response, queryVars>>
          ELSE LET r == IF ok THEN page + 1 ELSE response
                   posts == SitePage(r)
               IN /\ response' = r
                  /\ exc' = exc
                  /\ IF NoPosts(posts)
                     THEN /\ pc' = "fp_return"
                          /\ UNCHANGED queryVars
                     ELSE /\ pc' = "find_pages"
                          /\ page_links' = AddPosts(page_links, posts)
                          /\ UNCHANGED <<num_results_desired, date, site, comic_links>>
  /\ UNCHANGED <<diskVars, nameVars, linkVars, dlVars, mainVars>>

\* line 30 false: the loop ends and find_pages returns (lines 52-53)
FP_Exit ==
  /\ pc = "find_pages"
  /\ ~FindMore
  /\ pc' = "fp_return"
  /\ UNCHANGED <<exc, queryVars, findVars, diskVars, nameVars, linkVars, dlVars, mainVars>>

NextFind == Main_find_pages \/ Call_find_pages \/ FP_Iter \/ FP_Exit

SpecFind == InitFind /\ [][NextFind]_vars

\* The same runs, with a find_pages that is running always taking its next step.
FairSpecFind == SpecFind /\ WF_vars(FP_Iter \/ FP_Exit)

\* ------------------------------------------------- claims on find_pages
\* s without the later repeats of its elements
RECURSIVE Distinct(_)
Distinct(s) ==
  IF s = <<>> THEN <<>>
  ELSE LET d == Distinct(SubSeq(s, 1, Len(s) - 1)) IN
       IF \E i \in 1..Len(d) : d[i] = s[Len(s)] THEN d ELSE Append(d, s[Len(s)])

HrefsOf(posts) == [i \in 1..Len(posts) |-> posts[i].href]

\* The result URLs of the pages the first n requests brought back, in order.
RECURSIVE OfferedUpTo(_)
OfferedUpTo(n) ==
  IF n = 0 THEN <<>>
  ELSE OfferedUpTo(n - 1) \o
       (IF fetched[n].ok THEN HrefsOf(SitePage(fetched[n].page)) ELSE <<>>)

Offered == OfferedUpTo(Len(fetched))

\* The result URLs of the whole site, in order.
RECURSIVE SiteHrefsUpTo(_)
SiteHrefsUpTo(n) == IF n = 0 THEN <<>> ELSE SiteHrefsUpTo(n - 1) \o HrefsOf(site[n])

SiteHrefs == SiteHrefsUpTo(Len(site))

FindReturned == pc = "fp_return"

\* C2: with a cutoff set, the first result older than the cutoff ends
\* discovery: the map holds only results that came before it, and the page
\* that held it is the last page requested.
C2_CutoffStops ==
  date # 0 =>
    LET olds == {i \in 1..Len(Offered) : DateOf[Offered[i]] < date}
        firstOld == IF olds = {} THEN Len(Offered) + 1
                    ELSE CHOOSE i \in olds : \A j \in olds : i <= j
    IN /\ KeySet(page_links) \subseteq {Offered[j] : j \in 1..(firstOld - 1)}
       /\ \A n \in 1..Len(fetched) :
            (fetched[n].ok /\ \E k \in 1..Len(SitePage(n)) : DateOf[SitePage(n)[k].href] < date)
              => n = Len(fetched)

\* C3: with desired_count > 0 the page map never holds more than
\* desired_count entries, and when the pages brought back (or, in a run
\* without a failed request, the site) hold at least desired_count distinct
\* URLs, find_pages returns with exactly the first desired_count of them,
\* in first-seen order.
C3_DesiredCount ==
  num_results_desired > 0 =>
    /\ Len(page_links) <= num_results_desired
    /\ (FindReturned /\ Len(Distinct(Offered)) >= num_results_desired)
         => Keys(page_links) = SubSeq(Distinct(Offered), 1, num_results_desired)
    /\ (FindReturned /\ errors = 0 /\ Len(Distinct(SiteHrefs)) >= num_results_desired)
         => Keys(page_links) = SubSeq(Distinct(SiteHrefs), 1, num_results_desired)

\* desired_count = 2: a second page whose first result fills the map and whose
\* second result, a third distinct URL, is left out.
C3_Witness ==
  /\ FindReturned
  /\ num_results_desired = 2
  /\ Len(fetched) = 2
  /\ Len(site) = 2
  /\ Len(site[2]) = 2
  /\ Len(Distinct(Offered)) = 3
  /\ Len(page_links) = 2

\* What C4 says of every state: the requests are for pages 1, 2, 3, ...; a
\* page that came back with no post is the last one requested, and
\* find_pages has returned; no page is requested while the map holds
\* desired_count entries.
C4_Pages ==
  /\ \A i \in 1..Len(fetched) : fetched[i].page = i
  /\ \A i \in 1..Len(fetched) :
       (fetched[i].ok /\ Len(SitePage(i)) = 0) => (i = Len(fetched) /\ FindReturned)
  /\ \A i \in 1..Len(fetched) :
       num_results_desired > 0 => fetched[i].had < num_results_desired

\* C4: pages are requested in increasing order from 1, discovery ends at
\* the first page that yields no result and requests none once the map is
\* full; and a find_pages that was called ends (requests fail at most
\* MaxErrors times, so the site does return its empty page).
C4_Terminates ==
  /\ []C4_Pages
  /\ (pc = "find_pages") ~> (pc \in {"fp_return", "raised"})

\* No limit: two pages of results, then the empty third page ends discovery.
C4_Witness ==
  /\ FindReturned
  /\ num_results_desired = 0
  /\ Len(fetched) = 3
  /\ \A i \in 1..3 : fetched[i].ok
  /\ Len(page_links) > 0

\* C7: a request for page N that raises does not abort the query: no
\* result is added for page N and discovery stands before page N + 1.
C7_FindFailsSoft ==
  (Len(fetched) > 0 /\ ~fetched[Len(fetched)].ok) =>
    /\ exc = "none"
    /\ pc = "find_pages"
    /\ page = fetched[Len(fetched)].page
    /\ Len(page_links) = fetched[Len(fetched)].had

\* ---------------------------------------------------- get_download_links
\* Link URLs a result page may hold.
L1 == <<HTTP, ":", SLASH, SLASH, "h", SLASH, "a", DOT, "c">>
L2 == <<HTTP, ":", SLASH, SLASH, "g", SLASH, "a", DOT, "c">>
L3 == <<HTTP, ":", SLASH, SLASH, "h", SLASH, "b", DOT, "c">>
L4 == <<HTTP, ":", SLASH, SLASH, "h", SLASH, "a", "%3A", "b">>
L5 == <<HTTP, ":", SLASH, SLASH, "h", SLASH, "%2F", "e">>
M1 == <<HTTP, ":", SLASH, SLASH, "m", SLASH, "x">>
M2 == <<SLASH, SLASH, "m", SLASH, "x">>

\* What lines 74-76 find on a result page: the href of the first
\* <a title="Download Now"> (or none), the hrefs of the <a>s reading
\* "Main Server", the href of the first <a title="MEDIAFIRE"> (or none).
Docs ==
  [native : {<<>>, <<L1>>},
   mains  : {<<>>, <<L2, L3>>, <<L3, L3>>},
   mirror : {<<>>, <<M1>>}]

\* lines 86-87
RECURSIVE SetAll(_, _, _)
SetAll(d, links, title) ==
  IF links = <<>> THEN d ELSE SetAll(DictSet(d, Head(links), title), Tail(links), title)

\* lines 78-87 with the mirror recorded whenever the page has one
Resolve_mirror_always(d, doc, title) ==
  LET m == IF doc.mirror # <<>> THEN DictSet(d, <<MARKER>> \o doc.mirror[1], title) ELSE d IN
  IF doc.native = <<>> /\ doc.mains = <<>> THEN m
  ELSE IF doc.native # <<>> THEN DictSet(m, doc.native[1], title)
  ELSE SetAll(m, doc.mains, title)

\* lines 78-87: what one page adds to comic_links
Resolve(d, doc, title) ==
  IF doc.native = <<>> /\ doc.mains = <<>>
  THEN IF doc.mirror # <<>> THEN DictSet(d, <<MARKER>> \o doc.mirror[1], title) ELSE d
  ELSE IF doc.native # <<>> THEN DictSet(d, doc.native[1], title)
  ELSE SetAll(d, doc.mains, title)

\* The page maps find_pages can leave behind, up to the order of the pages.
PageMaps ==
  { <<>>,
    <<[key |-> "p1", val |-> "t1"]>>,
    <<[key |-> "p1", val |-> "t1"], [key |-> "p2", val |-> "t2"]>>,
    <<[key |-> "p1", val |-> "t1"], [key |-> "p2", val |-> "t2"], [key |-> "p3", val |-> "t3"]>> }

InitLinks ==
  /\ pc = "main_233"
  /\ exc = "none"
  /\ num_results_desired = 0
  /\ date = 0
  /\ site = <<>>
  /\ page_links \in PageMaps
  /\ comic_links = <<>>
  /\ IdleFind
  /\ docs \in [KeySet(page_links) -> Docs]
  /\ gl_i = 0
  /\ gl_response = "unbound"
  /\ gl_log = <<>>
  /\ IdleDownload
  /\ IdleNames
  /\ IdleMain
  /\ fs = <<>>
  /\ dirs = {}

\* main.py line 233, query.get_download_links(): line 65, the loop begins
Call_get_download_links ==
  /\ pc = "main_233"
  /\ pc' = "get_download_links"
  /\ gl_i' = 1
  /\ gl_response' = "unbound"
  /\ UNCHANGED <<exc, queryVars, findVars, docs, gl_log, dlVars, diskVars, nameVars, mainVars>>

\* One pass of the for loop, lines 65-87. A requests.get that raises is
\* caught and printed (lines 69-71) and the pass goes on to line 73 with
\* `response` as it was: unbound at the first page (UnboundLocalError), the
\* previous page's response later.
GL_Iter ==
  /\ pc = "get_download_links"
  /\ gl_i <= Len(page_links)
  /\ \E ok \in BOOLEAN :
       LET url == page_links[gl_i].key
           title == page_links[gl_i].val
       IN /\ ~ok => errors < MaxErrors
          /\ errors' = IF ok THEN errors ELSE errors + 1
          /\ IF ~ok /\ gl_response = "unbound"
             THEN /\ pc' = "raised"
                  /\ exc' = "UnboundLocalError"
                  /\ gl_log' = Append(gl_log, [url |-> url, ok |-> ok,
                                               before |-> comic_links, after |-> comic_links])
                  /\ UNCHANGED <<gl_i, gl_response, queryVars>>
             ELSE LET r == IF ok THEN url ELSE gl_response
                      after == Resolve(comic_links, docs[r], title)
                  IN /\ gl_response' = r
                     /\ comic_links' = after
                     /\ gl_log' = Append(gl_log, [url |-> url, ok |-> ok,
                                                  before |-> comic_links, after |-> after])
                     /\ gl_i' = gl_i + 1
                     /\ UNCHANGED <<pc, exc, num_results_desired, date, site, page_links>>
  /\ UNCHANGED <<page, response, fetched, docs, dlVars, diskVars, nameVars, mainVars>>

\* the items of page_links are used up: get_download_links returns
GL_Exit ==
  /\ pc = "get_download_links"
  /\ gl_i > Len(page_links)
  /\ pc' = "gl_return"
  /\ UNCHANGED <<exc, queryVars, findVars, linkVars, dlVars, diskVars, nameVars, mainVars>>

NextLinks == Call_get_download_links \/ GL_Iter \/ GL_Exit

SpecLinks == InitLinks /\ [][NextLinks]_vars

\* ------------------------------------------ claims on get_download_links
Range(q) == {q[i] : i \in 1..Len(q)}

\* The keys the claim has a page add: its native link; else its main-server
\* links; else its mirror link under the marker; else none.
ExpectedKeys(doc) ==
  IF doc.native # <<>> THEN {doc.native[1]}
  ELSE IF doc.mains # <<>> THEN Range(doc.mains)
  ELSE IF doc.mirror # <<>> THEN {<<MARKER>> \o doc.mirror[1]}
  ELSE {}

\* C5: a page that was fetched adds exactly the entries of the first kind
\* it holds (native link; else one per distinct main-server link; else the
\* mirror link, its key led by the marker; else nothing), each under the
\* page's title, and changes no other entry.
C5_LinkPriority ==
  \A i \in 1..Len(gl_log) :
    gl_log[i].ok =>
      LET e == gl_log[i]
          X == ExpectedKeys(docs[e.url])
      IN /\ KeySet(e.after) = KeySet(e.before) \cup X
         /\ Len(e.after) = Cardinality(KeySet(e.before) \cup X)
         /\ \A k \in X : Value(e.after, k) = TitleOf[e.url]
         /\ \A k \in KeySet(e.before) \ X : Value(e.after, k) = Value(e.before, k)
         /\ \A k \in X : (k[1] = MARKER) <=> (docs[e.url].native = <<>> /\ docs[e.url].mains = <<>>)

\* A fetched page that holds all three kinds of link, and one that holds
\* only a mirror link, have both been resolved.
C5_Witness ==
  /\ \E i \in 1..Len(gl_log) :
       /\ gl_log[i].ok
       /\ docs[gl_log[i].url].native # <<>>
       /\ docs[gl_log[i].url].mains # <<>>
       /\ docs[gl_log[i].url].mirror # <<>>
  /\ \E i \in 1..Len(gl_log) :
       /\ gl_log[i].ok
       /\ docs[gl_log[i].url].native = <<>>
       /\ docs[gl_log[i].url].mains = <<>>
       /\ docs[gl_log[i].url].mirror # <<>>
       /\ Len(gl_log[i].after) = Len(gl_log[i].before) + 1

\* C6: a page whose fetch raises adds and changes no entry of the link
\* map, and the run goes on to the next page, wherever the page stands.
C6_LinksFailSoft ==
  /\ exc = "none"
  /\ \A i \in 1..Len(gl_log) :
       ~gl_log[i].ok => gl_log[i].after = gl_log[i].before

\* ------------------------------------------ download_comics, download_file
\* tempfile.gettempdir()
TmpDir == <<SLASH, "tmp">>

\* args.download_path (main.py lines 28, 59): "./", "d" and "/h"
DownloadPaths == { <<DOT>>, <<"d">>, <<SLASH, "h">> }

\* The keys get_download_links can have left in comic_links.
LinkKeys == {L1, L2, L3, L4, L5, <<MARKER>> \o M1, <<MARKER>> \o M2}

DistinctSeqs(S, n) ==
  {q \in SeqsUpTo(S, n) : \A i \in 1..Len(q) : \A j \in 1..Len(q) : i # j => q[i] # q[j]}

LinkMaps ==
  {[i \in 1..Len(q) |-> [key |-> q[i], val |-> "t1"]] : q \in DistinctSeqs(LinkKeys, MaxLinks)}

\* url.startswith("_MEDIAFIRE_")
IsMirror(url) == Len(url) > 0 /\ url[1] = MARKER

\* url.index('http'), 0 standing for its ValueError
IndexHttp(url) ==
  IF StrContains(url, HTTP)
  THEN CHOOSE i \in 1..Len(url) : url[i] = HTTP /\ \A j \in 1..(i - 1) : url[j] # HTTP
  ELSE 0

\* lines 99-100 without the call of create_file_name
DestinationOf_asis(url) ==
  PathJoin(download_path, Unquote(RPartition(url, SLASH)[3]))

\* lines 99-100: the path the download is to end at
DestinationOf(url) ==
  create_file_name(PathJoin(download_path, Unquote(RPartition(url, SLASH)[3])))

\* line 120: Path(tempfile.gettempdir()) / filename
TempFileOf(filename) == PathJoin(TmpDir, filename)

StreamErrors == {"ConnectionError", "OSError"}

InitDownload ==
  /\ pc = "main_245"
  /\ exc = "none"
  /\ num_results_desired = 0
  /\ date = 0
  /\ site = <<>>
  /\ page_links = <<[key |-> "p1", val |-> "t1"]>>
  /\ comic_links \in LinkMaps
  /\ IdleFind
  /\ IdleLinks
  /\ download_path \in DownloadPaths
  /\ dc_i = 0
  /\ destination = <<>>
  /\ temp_file = <<>>
  /\ df_left = 0
  /\ df_stage = "none"
  /\ reported = <<>>
  /\ gets = <<>>
  /\ IdleNames
  /\ argv_date = <<>>
  /\ date_res = NoDate
  /\ verbose = FALSE
  /\ prompt \in BOOLEAN
  /\ declined \in (IF prompt /\ comic_links # <<>> THEN {{}, {1}} ELSE {{}})
  /\ newer = 0
  /\ test = FALSE
  /\ loop_i = -1
  /\ failed_to_find_comics = 0
  /\ queries = <<>>
  /\ \E S \in SUBSET {PathJoin(download_path, <<"a", DOT, "c">>),
                      PathJoin(download_path, <<"a", " ", "(", "0", ")", DOT, "c">>)} :
       fs = [f \in S |-> OldFile]
  /\ \E T \in SUBSET {PathJoin(TmpDir, <<"d">>)} :
       dirs = DownloadPaths \cup {TmpDir, <<SLASH>>} \cup T

\* main.py line 245, query.download_comics(args.prompt): download_comics
\* (line 89) takes no argument, so the call raises TypeError.
Main_download_comics ==
  /\ pc = "main_245"
  /\ pc' = "raised"
  /\ exc' = "TypeError"
  /\ UNCHANGED <<queryVars, findVars, linkVars, dlVars, diskVars, nameVars, mainVars>>

\* query.download_comics(), the call the method accepts: line 93
Call_download_comics ==
  /\ pc = "main_245"
  /\ pc' = "download_comics"
  /\ dc_i' = 1
  /\ UNCHANGED <<exc, queryVars, findVars, linkVars, download_path, destination, temp_file,
                 df_left, df_stage, reported, gets, diskVars, nameVars, mainVars>>

\* lines 94-96: a Mediafire entry is printed from its first 'http' on
DC_Mirror ==
  /\ pc = "download_comics"
  /\ dc_i <= Len(comic_links)
  /\ IsMirror(comic_links[dc_i].key)
  /\ LET url == comic_links[dc_i].key IN
     IF IndexHttp(url) = 0
     THEN /\ pc' = "raised"
          /\ exc' = "ValueError"
          /\ UNCHANGED <<dc_i, reported>>
     ELSE /\ reported' = Append(reported, [i |-> dc_i, text |-> SubSeq(url, IndexHttp(url), Len(url))])
          /\ dc_i' = dc_i + 1
          /\ UNCHANGED <<pc, exc>>
  /\ UNCHANGED <<queryVars, findVars, linkVars, download_path, destination, temp_file,
                 df_left, df_stage, gets, diskVars, nameVars, mainVars>>

\* lines 98-106 and 117-120: the file name is worked out and download_file
\* is entered
DC_Direct ==
  /\ pc = "download_comics"
  /\ dc_i <= Len(comic_links)
  /\ ~IsMirror(comic_links[dc_i].key)
  /\ destination' = DestinationOf(comic_links[dc_i].key)
  /\ temp_file' = TempFileOf(destination')
  /\ df_stage' = "get"
  /\ pc' = "df_get"
  /\ UNCHANGED <<exc, queryVars, findVars, linkVars, download_path, dc_i, df_left, reported,
                 gets, diskVars, nameVars, mainVars>>

\* line 122: requests.get(url, stream=True) answers, its body of 0..MaxChunks
\* chunks to come, or raises
DF_Get ==
  /\ pc = "df_get"
  /\ gets' = Append(gets, comic_links[dc_i].key)
  /\ \/ /\ \E n \in 0..MaxChunks : df_left' = n
        /\ pc' = "df_open"
        /\ UNCHANGED <<exc, errors>>
     \/ /\ errors < MaxErrors
        /\ errors' = errors + 1
        /\ pc' = "raised"
        /\ exc' = "ConnectionError"
        /\ UNCHANGED df_left
  /\ UNCHANGED <<queryVars, page, response, fetched, linkVars, download_path, dc_i, destination,
                 temp_file, df_stage, reported, diskVars, nameVars, mainVars>>

\* line 123: open(temp_file, "wb") creates the file or empties it
DF_Open ==
  /\ pc = "df_open"
  /\ df_stage' = "open"
  /\ IF ParentDir(temp_file) \notin dirs
     THEN /\ pc' = "raised"
          /\ exc' = "FileNotFoundError"
          /\ UNCHANGED fs
     ELSE IF temp_file \in dirs
     THEN /\ pc' = "raised"
          /\ exc' = "IsADirectoryError"
          /\ UNCHANGED fs
     ELSE /\ fs' = [f \in DOMAIN fs \cup {temp_file} |->
                      IF f = temp_file THEN [by |-> dc_i, bytes |-> 0, whole |-> FALSE]
                      ELSE fs[f]]
          /\ pc' = "df_stream"
          /\ UNCHANGED exc
  /\ UNCHANGED <<queryVars, findVars, linkVars, download_path, dc_i, destination, temp_file,
                 df_left, reported, gets, dirs, nameVars, mainVars>>

\* lines 125-132: the next chunk is read and written, or reading
\* (ConnectionError) or writing (OSError) raises
DF_Chunk ==
  /\ pc = "df_stream"
  /\ df_left > 0
  /\ df_stage' = "stream"
  /\ \/ /\ fs' = [fs EXCEPT ![temp_file].bytes = @ + 1]
        /\ df_left' = df_left - 1
        /\ UNCHANGED <<pc, exc, errors>>
     \/ /\ errors < MaxErrors
        /\ errors' = errors + 1
        /\ \E e \in StreamErrors : exc' = e
        /\ pc' = "raised"
        /\ UNCHANGED <<fs, df_left>>
  /\ UNCHANGED <<queryVars, page, response, fetched, linkVars, download_path, dc_i, destination,
                 temp_file, reported, gets, dirs, nameVars, mainVars>>

\* line 133, the body read to its end: temp_file.replace(destination)
DF_Replace ==
  /\ pc = "df_stream"
  /\ df_left = 0
  /\ IF ParentDir(destination) \notin dirs
     THEN /\ pc' = "raised"
          /\ exc' = "FileNotFoundError"
          /\ df_stage' = "stream"
          /\ UNCHANGED <<fs, dc_i>>
     ELSE /\ fs' = [f \in (DOMAIN fs \ {temp_file}) \cup {PathStr(destination)} |->
                      IF f = PathStr(destination) THEN [fs[temp_file] EXCEPT !.whole = TRUE]
                      ELSE fs[f]]
          /\ df_stage' = "replaced"
          /\ dc_i' = dc_i + 1
          /\ pc' = "download_comics"
          /\ UNCHANGED exc
  /\ UNCHANGED <<queryVars, findVars, linkVars, download_path, destination, temp_file,
                 df_left, reported, gets, dirs, nameVars, mainVars>>

\* Ctrl-C while download_file runs: KeyboardInterrupt reaches main's
\* except clause (main.py lines 257-258), which exits
DF_Interrupt ==
  /\ pc \in {"df_get", "df_open", "df_stream"}
  /\ pc' = "exited"
  /\ exc' = "KeyboardInterrupt"
  /\ UNCHANGED <<queryVars, findVars, linkVars, dlVars, diskVars, nameVars, mainVars>>

\* the items of comic_links are used up: download_comics returns
DC_Exit ==
  /\ pc = "download_comics"
  /\ dc_i > Len(comic_links)
  /\ pc' = "dc_return"
  /\ UNCHANGED <<exc, queryVars, findVars, linkVars, dlVars, diskVars, nameVars, mainVars>>

NextDownload ==
  \/ Main_download_comics
  \/ Call_download_comics
  \/ DC_Mirror
  \/ DC_Direct
  \/ DF_Get
  \/ DF_Open
  \/ DF_Chunk
  \/ DF_Replace
  \/ DF_Interrupt
  \/ DC_Exit

SpecDownload == InitDownload /\ [][NextDownload]_vars

\* ------------------------------------------- claims on the download loop
\* The latest download_file opened its temporary file and has not renamed it.
StreamOpen == df_stage \in {"open", "stream"}

\* C1: after a DIRECT download was cut short (network error, disk error,
\* Ctrl-C) nothing is at its destination path: the bytes written so far are
\* at a temporary path other than the destination.
C1_DestinationUntouched ==
  (StreamOpen /\ pc \in {"raised", "exited"}) =>
    /\ temp_file # PathStr(destination)
    /\ PathStr(destination) \notin DOMAIN fs

\* C8: the failure of one download's stream is not raised out of
\* download_comics: a download_comics that has ended, by returning or on
\* such a failure, has gone through every entry of the link map.
C8_SiblingsUnaffected ==
  (pc = "dc_return" \/ (pc = "raised" /\ df_stage = "stream" /\ exc \in StreamErrors)) =>
    dc_i > Len(comic_links)

\* C9: a MIRROR entry raises no error, is reported as its key without the
\* marker, and is neither requested nor written to disk.
C9_MirrorPassThrough ==
  /\ exc # "ValueError"
  /\ \A j \in 1..Len(comic_links) :
       (IsMirror(comic_links[j].key) /\ j < dc_i) =>
         \E k \in 1..Len(reported) :
           reported[k] = [i |-> j, text |-> Tail(comic_links[j].key)]
  /\ \A k \in 1..Len(gets) : ~IsMirror(gets[k])
  /\ \A f \in DOMAIN fs : fs[f].by # 0 => ~IsMirror(comic_links[fs[f].by].key)

\* C16: with -prompt given, an entry the user declines is not requested
\* and leaves no file, no error is raised for it, and download_comics goes
\* on to the entries after it.
C16_PromptGate ==
  prompt =>
    /\ exc # "TypeError"
    /\ \A j \in declined :
         ~IsMirror(comic_links[j].key) =>
           /\ \A k \in 1..Len(gets) : gets[k] # comic_links[j].key
           /\ \A f \in DOMAIN fs : fs[f].by # j

\* What C18 says of every state: each DIRECT entry gone through has a
\* whole file of its own on disk; the path chosen for the entry at hand is
\* free, and when the plain name is taken it is the first free numbered
\* slot of that name.
C18_Places ==
  /\ \A j \in 1..Len(comic_links) :
       (j < dc_i /\ ~IsMirror(comic_links[j].key)) =>
         \E f \in DOMAIN fs : fs[f].by = j /\ fs[f].whole
  /\ pc = "df_get" =>
       LET n == StrReplace(PathJoin(download_path,
                                    Unquote(RPartition(comic_links[dc_i].key, SLASH)[3])),
                           BSLASH, SLASH)
       IN /\ ~Exists(destination)
          /\ Exists(n) =>
               \E k \in 0..Cardinality(DOMAIN fs) :
                 /\ destination = Slot(n, k)
                 /\ \A j \in 0..(k - 1) : Exists(Slot(n, j))

\* What C18 says of every step: a whole file, one from before the run or a
\* download completed in it, stays where it is with what it holds.
C18_Kept ==
  \A f \in DOMAIN fs : fs[f].whole => (f \in DOMAIN fs' /\ fs'[f] = fs[f])

Forbidden == {SLASH, BSLASH, ":", "*", "?", "\"", "<", ">", "|"}
Sanitize(s) == SelectSeq(s, LAMBDA c : c \notin Forbidden)

\* download_file has been entered for the entry at dc_i and has not ended.
InDownloadFile == pc \in {"df_get", "df_open", "df_stream"}

\* C11: the file name a DIRECT link is downloaded to is the last segment
\* of its URL, percent-decoded, with every character of / \ : * ? " < > |
\* removed, in the download directory, as it is or in its first free
\* numbered slot; the name used holds none of those characters.
C11_SanitizedName ==
  InDownloadFile =>
    LET seg == Unquote(RPartition(comic_links[dc_i].key, SLASH)[3])
        want == PathJoin(download_path, Sanitize(seg))
        used == RPartition(destination, SLASH)[3]
    IN /\ \A i \in 1..Len(used) : used[i] \notin Forbidden
       /\ \/ destination = want
          \/ \E k \in 0..Cardinality(DOMAIN fs) : destination = Slot(want, k)

\* C20: the destination of a DIRECT link lies directly in the download
\* directory, whatever the last segment of its URL decodes to.
C20_InsideDownloadDir ==
  InDownloadFile => ParentDir(destination) = PathStr(download_path)

\* ---------------------------------------------------------------- is_date
\* A date string is a sequence of characters; a month word ("Nov") is one
\* token, which no step of is_date takes apart.
Digits == {"0", "1", "2", "3", "4", "5", "6", "7", "8", "9"}
DigitVal ==
  ("0" :> 0) @@ ("1" :> 1) @@ ("2" :> 2) @@ ("3" :> 3) @@ ("4" :> 4) @@
  ("5" :> 5) @@ ("6" :> 6) @@ ("7" :> 7) @@ ("8" :> 8) @@ ("9" :> 9)

\* part.isdigit()
IsDigitStr(p) == Len(p) > 0 /\ \A i \in 1..Len(p) : p[i] \in Digits

RECURSIVE IntOfDigits(_)
IntOfDigits(p) ==
  IF p = <<>> THEN 0
  ELSE 10 * IntOfDigits(SubSeq(p, 1, Len(p) - 1)) + DigitVal[p[Len(p)]]

\* int(p): blanks around the digits are allowed, anything else is a ValueError
RECURSIVE Strip(_)
Strip(p) ==
  IF p # <<>> /\ p[1] = " " THEN Strip(Tail(p))
  ELSE IF p # <<>> /\ p[Len(p)] = " " THEN Strip(SubSeq(p, 1, Len(p) - 1))
  ELSE p
CanInt(p) == IsDigitStr(Strip(p))
IntOf(p) == IntOfDigits(Strip(p))

\* part.lower(), on the words the inputs hold
Lower(t) == CASE t = "Nov" -> "nov" [] t = "May" -> "may" [] OTHER -> t

\* lines 140-164 (the table has no "may" of its own among the full names:
\* the short name is the same word)
months ==
  ("january" :> 1) @@ ("february" :> 2) @@ ("march" :> 3) @@ ("april" :> 4) @@
  ("june" :> 6) @@ ("july" :> 7) @@ ("august" :> 8) @@ ("september" :> 9) @@
  ("october" :> 10) @@ ("november" :> 11) @@ ("december" :> 12) @@
  ("jan" :> 1) @@ ("feb" :> 2) @@ ("mar" :> 3) @@ ("apr" :> 4) @@ ("may" :> 5) @@
  ("jun" :> 6) @@ ("jul" :> 7) @@ ("aug" :> 8) @@ ("sep" :> 9) @@ ("oct" :> 10) @@
  ("nov" :> 11) @@ ("dec" :> 12)

\* line 170: not part.isdigit() and months.get(part.lower())
IsMonthName(p) == ~IsDigitStr(p) /\ Len(p) = 1 /\ Lower(p[1]) \in DOMAIN months

\* lines 89-90
DateSeps == {"/", ".", "-", "\\"}
Dashed(s) == [i \in 1..Len(s) |-> IF s[i] \in DateSeps THEN "-" ELSE s[i]]

\* s.split(c): the pieces between the c's, empty ones too
RECURSIVE SplitOn(_, _)
SplitOn(s, c) ==
  IF ~StrContains(s, c) THEN << s >>
  ELSE LET p == RPartition(s, c) IN Append(SplitOn(p[1], c), p[3])

\* lines 92-95: date_split is bound when the string holds a "-" or a blank
SplitBound(s) == StrContains(Dashed(s), "-") \/ StrContains(Dashed(s), " ")
DateSplit(s) ==
  IF StrContains(Dashed(s), "-") THEN SplitOn(Dashed(s), "-")
  ELSE SelectSeq(SplitOn(Dashed(s), " "), LAMBDA q : q # <<>>)

\* date_split.pop(i), i counted from 1
Remove(ds, i) == SubSeq(ds, 1, i - 1) \o SubSeq(ds, i + 1, Len(ds))

\* The order of str: by code point, a shorter string before its extensions.
Rank(t) ==
  CASE t = " " -> 0
    [] t \in Digits -> 1 + DigitVal[t]
    [] t = "May" -> 20
    [] t = "Nov" -> 21
    [] t = "may" -> 30
    [] t = "nov" -> 31
    [] OTHER -> 40
RECURSIVE StrLess(_, _)
StrLess(a, b) ==
  IF b = <<>> THEN FALSE
  ELSE IF a = <<>> THEN TRUE
  ELSE IF Rank(a[1]) # Rank(b[1]) THEN Rank(a[1]) < Rank(b[1])
  ELSE StrLess(Tail(a), Tail(b))

\* date_split.index(max(date_split)), counted from 1
MaxIndex(ds) ==
  CHOOSE i \in 1..Len(ds) :
    /\ \A j \in 1..Len(ds) : ~StrLess(ds[i], ds[j])
    /\ \A j \in 1..(i - 1) : StrLess(ds[j], ds[i])

In1331(p) == IsDigitStr(p) /\ 12 < IntOfDigits(p) /\ IntOfDigits(p) < 32
Lt13(p) == IsDigitStr(p) /\ IntOfDigits(p) < 13
Count1331(ds) == Cardinality({j \in 1..Len(ds) : In1331(ds[j])})
CountLt13(ds) == Cardinality({j \in 1..Len(ds) : Lt13(ds[j])})

\* The dict `date` (a key that is absent and a key that holds 0 read the
\* same at every use, all of them date.get(...) tests), date_split, and the
\* exception raised so far.
DateState(ds, y, m, d, err) == [ds |-> ds, year |-> y, month |-> m, day |-> d, err |-> err]
Raise(st, e) == [st EXCEPT !.err = e]

\* lines 103-107: the first part that reads as a number in 32..9998 is the year
FindYear(ds) ==
  LET I == {i \in 1..Len(ds) :
              IsDigitStr(ds[i]) /\ 31 < IntOfDigits(ds[i]) /\ IntOfDigits(ds[i]) < 9999}
  IN IF I = {} THEN DateState(ds, 0, 0, 0, "none")
     ELSE LET i == CHOOSE k \in I : \A j \in I : k <= j
          IN DateState(Remove(ds, i), IntOfDigits(ds[i]), 0, 0, "none")

\* lines 112-117: every part reads the same
AllSame(st) ==
  LET ds == st.ds
      v == IntOf(ds[1])
  IN IF ~CanInt(ds[1]) THEN Raise(st, "ValueError")
     ELSE DateState(<<>>, IF st.year = 0 THEN v ELSE st.year, v, v, "none")

\* lines 121-124: the one part in 13..31 is the day, the other the month
DayIsLarge(st, i) ==
  LET rest == Remove(st.ds, i) IN
  IF ~CanInt(rest[Len(rest)]) THEN Raise(st, "ValueError")
  ELSE DateState(SubSeq(rest, 1, Len(rest) - 1), st.year,
                 IntOf(rest[Len(rest)]), IntOfDigits(st.ds[i]), "none")

\* lines 126-129: day = int(date_split.pop()), month = int(date_split.pop())
BothSmall(st) ==
  LET n == Len(st.ds) IN
  IF ~CanInt(st.ds[n]) \/ ~CanInt(st.ds[n - 1]) THEN Raise(st, "ValueError")
  ELSE DateState(SubSeq(st.ds, 1, n - 2), st.year, IntOf(st.ds[n - 1]), IntOf(st.ds[n]), "none")

\* lines 133-137: no year yet and two parts in 13..31: the middle part is
\* the month, the greater (as a string) of the others the year
NoYear(st) ==
  LET ds == st.ds
      rest == Remove(ds, 2)
      k == MaxIndex(rest)
      last == Remove(rest, k)
  IN IF ~CanInt(ds[2]) \/ ~CanInt(rest[k]) \/ ~CanInt(last[Len(last)])
     THEN Raise(st, "ValueError")
     ELSE DateState(SubSeq(last, 1, Len(last) - 1), IntOf(rest[k]), IntOf(ds[2]),
                    IntOf(last[Len(last)]), "none")

\* lines 110-137, from the i-th part on
RECURSIVE DayMonthFrom(_, _)
DayMonthFrom(st, i) ==
  IF i > Len(st.ds) THEN st
  ELSE IF \A j \in 1..Len(st.ds) : st.ds[j] = st.ds[1] THEN AllSame(st)
  ELSE IF st.year # 0 /\ In1331(st.ds[i]) /\ Count1331(st.ds) = 1 THEN DayIsLarge(st, i)
  ELSE IF st.year # 0 /\ CountLt13(st.ds) = 2 THEN BothSmall(st)
  ELSE IF st.year = 0 /\ Count1331(st.ds) >= 2 THEN NoYear(st)
  ELSE DayMonthFrom(st, i + 1)

\* lines 165-177, from the i-th part on; a pop inside the loop shifts the
\* parts after it one place down while the loop's index moves on
RECURSIVE MonthFrom(_, _)
MonthFrom(st, i) ==
  IF i > Len(st.ds) \/ st.month # 0 THEN st
  ELSE IF IsMonthName(st.ds[i])
       THEN MonthFrom([st EXCEPT !.ds = Remove(st.ds, i),
                                 !.month = months[Lower(st.ds[i][1])]], i + 1)
  ELSE IF st.year # 0 /\ st.day # 0
       THEN IF CanInt(st.ds[i])
            THEN [st EXCEPT !.ds = Remove(st.ds, i), !.month = IntOf(st.ds[i])]
            ELSE Raise(st, "ValueError")
  ELSE MonthFrom(st, i + 1)

\* lines 180-184: with year and month known the part left is stored, under
\* "month" once more
DayRevisit(st) ==
  IF st.ds # <<>> /\ st.year # 0 /\ st.month # 0
  THEN IF CanInt(st.ds[1])
       THEN [st EXCEPT !.ds = Tail(st.ds), !.month = IntOf(st.ds[1])]
       ELSE Raise(st, "ValueError")
  ELSE st

\* lines 187-189, from the i-th part on
RECURSIVE YearFrom(_, _)
YearFrom(st, i) ==
  IF i > Len(st.ds) THEN st
  ELSE IF st.month # 0 /\ st.day # 0 /\ IsDigitStr(st.ds[i])
       THEN YearFrom([st EXCEPT !.ds = Remove(st.ds, i), !.year = IntOfDigits(st.ds[i])], i + 1)
  ELSE YearFrom(st, i + 1)

\* datetime(year, month, day) accepts the triple
IsLeap(y) == (y % 4 = 0 /\ y % 100 # 0) \/ y % 400 = 0
DaysIn(y, m) ==
  IF m = 2 THEN (IF IsLeap(y) THEN 29 ELSE 28)
  ELSE IF m \in {4, 6, 9, 11} THEN 30 ELSE 31
ValidDate(y, m, d) ==
  /\ 1 <= y /\ y <= 9999
  /\ 1 <= m /\ m <= 12
  /\ 1 <= d /\ d <= DaysIn(y, m)

\* lines 192-211
MakeDate(st, original) ==
  LET o3 == IF Len(original[3]) = 2 THEN <<"2", "0">> \o original[3] ELSE original[3]
      year == IF st.year >= 10 /\ st.year <= 99 THEN 2000 + st.year ELSE st.year
      okY == year # 0 \/ CanInt(o3)
      okM == st.month # 0 \/ CanInt(original[2])
      okD == st.day # 0 \/ CanInt(original[1])
      y == IF year # 0 THEN year ELSE IntOf(o3)
      m == IF st.month # 0 THEN st.month ELSE IntOf(original[2])
      d == IF st.day # 0 THEN st.day ELSE IntOf(original[1])
  IN IF okY /\ okM /\ okD /\ ValidDate(y, m, d) THEN DateOut("date", "none", y, m, d)
     ELSE InvalidDate

\* lines 89-211
is_date(date_string) ==
  IF ~SplitBound(date_string) THEN DateOut("raise", "UnboundLocalError", 0, 0, 0)
  ELSE
    LET original == DateSplit(date_string) IN
    IF Len(original) # 3 THEN InvalidDate
    ELSE
      LET s1 == DayMonthFrom(FindYear(original), 1)
          s2 == IF s1.err # "none" THEN s1 ELSE MonthFrom(s1, 1)
          s3 == IF s2.err # "none" THEN s2 ELSE DayRevisit(s2)
          s4 == IF s3.err # "none" THEN s3 ELSE YearFrom(s3, 1)
      IN IF s4.err # "none" THEN DateOut("raise", s4.err, 0, 0, 0)
         ELSE MakeDate(s4, original)

\* ------------------------------------------------- is_date on its own
\* The parts a -date string may be made of, and the strings: three parts
\* around one separator, and strings with none, two or four parts.
DateParts ==
  { <<"0">>, <<"2">>, <<"0", "2">>, <<"3">>, <<"0", "3">>, <<"5">>, <<"0", "5">>,
    <<"1", "1">>, <<"1", "2">>, <<"1", "3">>, <<"1", "4">>, <<"2", "1">>, <<"2", "3">>,
    <<"2", "9">>, <<"3", "1">>, <<"3", "2">>, <<"2", "0", "2", "3">>, <<"2", "0", "2", "4">>,
    <<"Nov">>, <<>> }
PartSeps == {"-", "/", " "}
DateStrings ==
  {a \o <<c>> \o b \o <<c>> \o d : a \in DateParts, b \in DateParts, d \in DateParts,
                                  c \in PartSeps}
  \cup { <<"2", "0", "2", "3", "1", "1", "2", "1">>,
         <<"2", "1", "Nov", "2", "0", "2", "3">>,
         <<"2", "0", "2", "3", "-", "1", "1">>,
         <<"2", "1", " ", "Nov", "-", "2", "0", "2", "3">>,
         <<"2", "1", ".", "1", "1", "\\", "2", "0", "2", "3">>,
         <<"1", "-", "2", "-", "3", "-", "4">>,
         <<"2", "1", " ", "1", "1", " ", "2", "3", " ", "5">> }

InitDates ==
  /\ pc = "parse_66"
  /\ exc = "none"
  /\ IdleQuery
  /\ IdleFind
  /\ IdleLinks
  /\ IdleDownload
  /\ IdleNames
  /\ fs = <<>>
  /\ dirs = {}
  /\ argv_date \in DateStrings
  /\ date_res = NoDate
  /\ verbose = FALSE
  /\ prompt = FALSE
  /\ declined = {}
  /\ newer = 0
  /\ test = FALSE
  /\ loop_i = -1
  /\ failed_to_find_comics = 0
  /\ queries = <<>>

\* main.py line 66: is_date(args.date, return_datetime=True)
Call_is_date ==
  /\ pc = "parse_66"
  /\ date_res' = is_date(argv_date)
  /\ pc' = IF date_res'.out = "raise" THEN "raised" ELSE "parse_67"
  /\ exc' = IF date_res'.out = "raise" THEN date_res'.exc ELSE exc
  /\ UNCHANGED <<queryVars, findVars, linkVars, dlVars, diskVars, nameVars, argv_date,
                 verbose, prompt, declined, newer, test, loop_i, failed_to_find_comics,
                 queries>>

NextDates == Call_is_date

SpecDates == InitDates /\ [][NextDates]_vars

\* ---------------------------------------------------- claims on is_date
\* is_date has been applied to argv_date.
DateResolved == pc \in {"parse_67", "raised"} /\ date_res # NoDate

\* "2023-11-21", "21/11/2023", "21 Nov 2023", "21-11-23"
C12_Literals ==
  { <<"2", "0", "2", "3", "-", "1", "1", "-", "2", "1">>,
    <<"2", "1", "/", "1", "1", "/", "2", "0", "2", "3">>,
    <<"2", "1", " ", "Nov", " ", "2", "0", "2", "3">>,
    <<"2", "1", "-", "1", "1", "-", "2", "3">> }

\* C12: each of "2023-11-21", "21/11/2023", "21 Nov 2023" and "21-11-23"
\* resolves, without an exception, to 21 November 2023.
C12_RoundTrip ==
  (DateResolved /\ argv_date \in C12_Literals) =>
    date_res = DateOut("date", "none", 2023, 11, 21)

\* The string splits into exactly three parts.
ThreeParts(s) == SplitBound(s) /\ Len(DateSplit(s)) = 3

\* Three numbers, exactly one of them a year of four digits, that make a
\* real date in neither order of the other two.
NoRealDate(s) ==
  /\ ThreeParts(s)
  /\ \A i \in 1..3 : IsDigitStr(DateSplit(s)[i])
  /\ Cardinality({i \in 1..3 : Len(DateSplit(s)[i]) = 4}) = 1
  /\ LET ds == DateSplit(s)
         k == CHOOSE i \in 1..3 : Len(ds[i]) = 4
         rest == Remove(ds, k)
     IN /\ ~ValidDate(IntOfDigits(ds[k]), IntOfDigits(rest[1]), IntOfDigits(rest[2]))
        /\ ~ValidDate(IntOfDigits(ds[k]), IntOfDigits(rest[2]), IntOfDigits(rest[1]))

\* C13: is_date ends in a date or in InvalidDate and in nothing else; a
\* string that does not split into exactly three parts (one without any
\* separator too), and three numbers that name no real day of the
\* calendar ("31-02-2023", a day 32, a month 13), give InvalidDate.
C13_RejectsMalformed ==
  DateResolved =>
    /\ date_res.out \in {"date", "False"}
    /\ date_res.out = "date" => ValidDate(date_res.year, date_res.month, date_res.day)
    /\ ~ThreeParts(argv_date) => date_res = InvalidDate
    /\ NoRealDate(argv_date) => date_res = InvalidDate

\* The year is known after lines 103-107 and both parts left are numbers
\* of at most 12.
YearAndTwoSmall(s) ==
  /\ ThreeParts(s)
  /\ FindYear(DateSplit(s)).year # 0
  /\ \A j \in 1..2 : Lt13(FindYear(DateSplit(s)).ds[j])

\* C17: with the year known and both other parts at most 12, the first of
\* them is the day and the second the month, wherever the year stands
\* ("05-03-2023" is 5 March 2023).
C17_DayMonthOrder ==
  (DateResolved /\ YearAndTwoSmall(argv_date)) =>
    LET st == FindYear(DateSplit(argv_date))
        y == IF st.year <= 99 THEN 2000 + st.year ELSE st.year
        d == IntOfDigits(st.ds[1])
        m == IntOfDigits(st.ds[2])
    IN date_res = IF ValidDate(y, m, d) THEN DateOut("date", "none", y, m, d) ELSE InvalidDate

\* --------------------------------------------------------- the whole run
\* One run of main.py: parse_arguments, then main()'s loop of queries, each
\* query through find_pages, get_download_links and download_comics in
\* main()'s order (lines 231, 233, 245).

\* What the result pages of the site hold.
RunDocs ==
  [h \in Hrefs |->
     CASE h = "p1" -> [native |-> <<L1>>, mains |-> <<>>, mirror |-> <<M1>>]
       [] h = "p2" -> [native |-> <<>>, mains |-> <<>>, mirror |-> <<M1>>]
       [] OTHER -> [native |-> <<>>, mains |-> <<>>, mirror |-> <<>>]]

\* What the site finds for one query string: nothing, or one page of one post.
QuerySites == {<<>>} \cup {<< <<a>> >> : a \in Posts}

\* -output: the default, a directory, a path that does not exist, a file
ArgPaths == { <<DOT>>, <<SLASH, "h">>, <<"n">>, <<"f">> }

\* -date: not given, a date, a day that does not exist, no separator
ArgDates ==
  { <<>>,
    <<"2", "0", "2", "3", "-", "1", "1", "-", "2", "1">>,
    <<"3", "1", "-", "0", "2", "-", "2", "0", "2", "3">>,
    <<"2", "0", "2", "3", "1", "1", "2", "1">> }

\* Command lines: every -output and -date with and without -verbose, and
\* every way of looping over a default -output.
ArgSets ==
  { [download_path |-> p, date |-> s, verbose |-> v, prompt |-> FALSE, test |-> FALSE,
     newer |-> 0, results |-> 0] : p \in ArgPaths, s \in ArgDates, v \in BOOLEAN }
  \cup
  { [download_path |-> <<DOT>>, date |-> <<>>, verbose |-> FALSE, prompt |-> FALSE, test |-> t,
     newer |-> n, results |-> r] : t \in BOOLEAN, n \in {0, 1}, r \in {1, 4} }

Init ==
  /\ pc = "parse_arguments"
  /\ exc = "none"
  /\ \E a \in ArgSets :
       /\ download_path = a.download_path
       /\ argv_date = a.date
       /\ verbose = a.verbose
       /\ prompt = a.prompt
       /\ test = a.test
       /\ newer = a.newer
       /\ num_results_desired = a.results
  /\ declined = {}
  /\ date = 0
  /\ date_res = NoDate
  /\ loop_i = -1
  /\ failed_to_find_comics = 0
  /\ queries = <<>>
  /\ site = <<>>
  /\ page_links = <<>>
  /\ comic_links = <<>>
  /\ IdleFind
  /\ docs = RunDocs
  /\ gl_i = 0
  /\ gl_response = "unbound"
  /\ gl_log = <<>>
  /\ dc_i = 0
  /\ destination = <<>>
  /\ temp_file = <<>>
  /\ df_left = 0
  /\ df_stage = "none"
  /\ reported = <<>>
  /\ gets = <<>>
  /\ IdleNames
  /\ fs = [f \in {<<"f">>} |-> OldFile]
  /\ dirs = {<<DOT>>, <<SLASH, "h">>, TmpDir, <<SLASH>>}

\* main.py lines 59-65: the output directory is checked, then the date
Parse_59 ==
  /\ pc = "parse_arguments"
  /\ IF PathStr(download_path) \notin dirs
     THEN /\ pc' = "exited"
          /\ exc' = "SystemExit"
     ELSE /\ pc' = IF argv_date # <<>> THEN "parse_66" ELSE "main_219"
          /\ UNCHANGED exc
  /\ UNCHANGED <<queryVars, findVars, linkVars, dlVars, diskVars, nameVars, mainVars>>

\* main.py lines 66-70: args.date becomes what is_date returned; -verbose
\* prints args.date.strftime(...), which False does not have
Parse_67 ==
  /\ pc = "parse_67"
  /\ date' = date_res
  /\ IF verbose /\ date_res.out = "False"
     THEN /\ pc' = "raised"
          /\ exc' = "AttributeError"
     ELSE /\ pc' = "main_219"
          /\ UNCHANGED exc
  /\ UNCHANGED <<num_results_desired, site, page_links, comic_links, findVars, linkVars,
                 dlVars, diskVars, nameVars, mainVars>>

\* main.py lines 215-220
Main_219 ==
  /\ pc = "main_219"
  /\ loop_i' = -1
  /\ failed_to_find_comics' = 0
  /\ pc' = "main_222"
  /\ UNCHANGED <<exc, queryVars, findVars, linkVars, dlVars, diskVars, nameVars, argv_date,
                 date_res, verbose, prompt, declined, newer, test, queries>>

\* main.py lines 222-228: the next query is constructed, its maps empty and
\* nothing requested by it yet; the site holds what it holds for that query
\* string
Main_222 ==
  /\ pc = "main_222"
  /\ loop_i + 1 < MaxQueries
  /\ loop_i' = IF newer # 0 THEN loop_i + 1 ELSE loop_i
  /\ page_links' = <<>>
  /\ comic_links' = <<>>
  /\ \E st \in QuerySites : site' = st
  /\ fetched' = <<>>
  /\ gl_log' = <<>>
  /\ pc' = "main_231"
  /\ UNCHANGED <<exc, num_results_desired, date, page, response, errors, docs, gl_i,
                 gl_response, dlVars, diskVars, nameVars, argv_date, date_res, verbose,
                 prompt, declined, newer, test, failed_to_find_comics, queries>>

\* main.py lines 232-233: find_pages has returned
Main_233 ==
  /\ pc = "fp_return"
  /\ pc' = "main_233"
  /\ UNCHANGED <<exc, queryVars, findVars, linkVars, dlVars, diskVars, nameVars, mainVars>>

\* main.py lines 235-245: -test prints what was found; without a page the
\* query ends with "No results found"; else the links are downloaded
Main_242 ==
  /\ pc = "gl_return"
  /\ pc' = IF page_links = <<>> \/ test THEN "main_247" ELSE "main_245"
  /\ UNCHANGED <<exc, queryVars, findVars, linkVars, dlVars, diskVars, nameVars, mainVars>>

\* main.py line 245: download_comics has returned
Main_246 ==
  /\ pc = "dc_return"
  /\ pc' = "main_247"
  /\ UNCHANGED <<exc, queryVars, findVars, linkVars, dlVars, diskVars, nameVars, mainVars>>

\* max(3, args.results)
FailLimit == IF num_results_desired > 3 THEN num_results_desired ELSE 3

\* main.py lines 247-256: the end of one pass of the loop
Main_247 ==
  /\ pc = "main_247"
  /\ queries' = Append(queries, [n |-> newer + loop_i, links |-> Len(comic_links)])
  /\ IF newer # 0
     THEN IF comic_links = <<>>
          THEN /\ failed_to_find_comics' = failed_to_find_comics + 1
               /\ pc' = IF failed_to_find_comics' = FailLimit THEN "done" ELSE "main_222"
          ELSE /\ failed_to_find_comics' = 0
               /\ pc' = "main_222"
     ELSE /\ pc' = "done"
          /\ UNCHANGED failed_to_find_comics
  /\ UNCHANGED <<exc, queryVars, findVars, linkVars, dlVars, diskVars, nameVars, argv_date,
                 date_res, verbose, prompt, declined, newer, test, loop_i>>

Next ==
  \/ Parse_59
  \/ Call_is_date
  \/ Parse_67
  \/ Main_219
  \/ Main_222
  \/ NextFind
  \/ Main_233
  \/ NextLinks
  \/ Main_242
  \/ NextDownload
  \/ Main_246
  \/ Main_247

Spec == Init /\ [][Next]_vars

\* ------------------------------------- find_pages, then get_download_links
\* Result pages that hold the same link on every page, and result pages
\* that hold one link twice.
MapDocs ==
  { [h \in Hrefs |-> [native |-> <<L1>>, mains |-> <<>>, mirror |-> <<>>]],
    [h \in Hrefs |->
       CASE h = "p1" -> [native |-> <<>>, mains |-> <<L3, L3>>, mirror |-> <<>>]
         [] h = "p2" -> [native |-> <<>>, mains |-> <<L2, L3>>, mirror |-> <<M1>>]
         [] OTHER -> [native |-> <<>>, mains |-> <<>>, mirror |-> <<M1>>]] }

InitMaps ==
  /\ pc = "main_231"
  /\ exc = "none"
  /\ num_results_desired \in {0, 2}
  /\ date = 0
  /\ site \in Sites
  /\ page_links = <<>>
  /\ comic_links = <<>>
  /\ IdleFind
  /\ docs \in MapDocs
  /\ gl_i = 0
  /\ gl_response = "unbound"
  /\ gl_log = <<>>
  /\ IdleDownload
  /\ IdleNames
  /\ IdleMain
  /\ fs = <<>>
  /\ dirs = {}

NextMaps == NextFind \/ Main_233 \/ NextLinks

SpecMaps == InitMaps /\ [][NextMaps]_vars

\* The link URLs a result page offers, in the order lines 78-87 store them.
LinksOf(doc) ==
  IF doc.native # <<>> THEN <<doc.native[1]>>
  ELSE IF doc.mains # <<>> THEN doc.mains
  ELSE IF doc.mirror # <<>> THEN << <<MARKER>> \o doc.mirror[1] >>
  ELSE <<>>

\* The result page the n-th pass of get_download_links read: the page
\* itself, or after a failed request the last page that came back.
RECURSIVE ReadAt(_)
ReadAt(n) ==
  IF n = 0 THEN "unbound"
  ELSE IF gl_log[n].ok THEN gl_log[n].url ELSE ReadAt(n - 1)

\* The link URLs the first n passes came upon, in order.
RECURSIVE LinksUpTo(_)
LinksUpTo(n) ==
  IF n = 0 THEN <<>>
  ELSE LinksUpTo(n - 1) \o (IF ReadAt(n) = "unbound" THEN <<>> ELSE LinksOf(docs[ReadAt(n)]))

LinksSeen == LinksUpTo(Len(gl_log))

NoRepeat(q) == \A i \in 1..Len(q) : \A j \in 1..Len(q) : i # j => q[i] # q[j]

\* C15: neither map ever holds a key twice: each holds one entry for every
\* distinct URL recorded, a URL that comes again (twice on one page, or on
\* a later page) adds no entry, and the entries stand in the order their
\* URLs first came.
C15_NoDuplicateKeys ==
  /\ NoRepeat(Keys(page_links))
  /\ NoRepeat(Keys(comic_links))
  /\ Keys(page_links) = SubSeq(Distinct(Offered), 1, Len(page_links))
  /\ num_results_desired = 0 => Len(page_links) = Cardinality(Range(Offered))
  /\ Keys(comic_links) = Distinct(LinksSeen)
  /\ Len(comic_links) = Cardinality(Range(LinksSeen))

\* Both maps have met repeats: a result URL twice on one search page and
\* again on the next, a link twice on one result page and again on a later
\* one.
C15_Witness ==
  /\ pc = "gl_return"
  /\ Len(site) = 2
  /\ Len(site[1]) = 2
  /\ site[1][1] = site[1][2]
  /\ \E k \in 1..Len(site[2]) : site[2][k] = site[1][1]
  /\ Len(page_links) = 2
  /\ Len(Offered) = 4
  /\ Len(comic_links) = 2
  /\ Len(LinksSeen) = 4

\* ------------------------------------------------------ claims on the run
\* The command line names an output directory that is missing or is no
\* directory, or a -date string that is_date does not make a date of.
ConfigError ==
  \/ PathStr(download_path) \notin dirs
  \/ argv_date # <<>> /\ is_date(argv_date).out # "date"

\* A search page, a result page or a file has been requested.
NetworkUsed == fetched # <<>> \/ gl_log # <<>> \/ gets # <<>>

RECURSIVE Trailing(_)
Trailing(q) ==
  IF q = <<>> \/ q[Len(q)].links # 0 THEN 0
  ELSE 1 + Trailing(SubSeq(q, 1, Len(q) - 1))

\* main()'s loop has ended: by its break, or by an exception raised in it.
LoopEnded ==
  \/ pc = "done"
  \/ pc = "raised" /\ date_res.out # "raise" /\ exc # "AttributeError"

\* What C19 says of the loop while it runs and when it has ended.
LoopCounts ==
  /\ newer # 0 =>
       /\ \A k \in 1..Len(queries) : queries[k].n = newer + (k - 1)
       /\ failed_to_find_comics = Trailing(queries)
       /\ failed_to_find_comics <= FailLimit
       /\ \A k \in 1..(Len(queries) - 1) : Trailing(SubSeq(queries, 1, k)) < FailLimit
  /\ newer = 0 => Len(queries) <= 1

\* C19: with -newer the queries are for newer, newer + 1, newer + 2, ... in
\* order; the counter is the number of queries in a row, up to the latest,
\* that produced no link; the loop ends exactly when the counter reaches
\* max(3, results). Without -newer exactly one query is run.
C19_NewerLoop ==
  /\ LoopCounts
  /\ LoopEnded =>
       /\ newer # 0 => failed_to_find_comics = FailLimit
       /\ newer = 0 => Len(queries) = 1

====
